---- MODULE Spec2Model ----
(***************************************************************************)
(* Scalar-function registration of duckdb-rs (src/src/vfunc.rs).           *)
(*                                                                         *)
(* The wrapper builds a function descriptor through the engine's C entry   *)
(* points (src/src/vfunc/modname.rs), hands it to the engine with          *)
(* duckdb_register_scalar_function, and the engine later calls the         *)
(* trampoline virtual_function::<Func> once per query batch.               *)
(*                                                                         *)
(* The engine is a foreign library: its side of every call is modelled     *)
(* from the header comment in modname.rs and from the specification's      *)
(* description (descriptor attributes, ownership transfer on a successful  *)
(* register, release of auxiliary data at teardown).  Its status code is   *)
(* a free choice.  Everything the wrapper does is translated from          *)
(* vfunc.rs.                                                               *)
(***************************************************************************)
EXTENDS Integers, Sequences, FiniteSets, TLC

\* ------------------------------------------------------------------ bounds
\* number of descriptors the engine hands out in one session
MaxDescriptors == 2
\* longest function name (in bytes) passed to register_scalar_function
MaxNameLen == 2
\* number of query batches the engine runs in one session
MaxInvocations == 2
\* largest integer held by an input row
MaxInput == 2

\* --------------------------------------------------------------- constants
\* ffi::DuckDBSuccess, the status vfunc.rs compares rc against
DuckDBSuccess == 0
\* the statuses duckdb_register_scalar_function may answer (success, error)
EngineStatuses == {DuckDBSuccess, DuckDBSuccess + 1}
\* (*extra_info).0 = 10 in test_extra_info
ExtraInfoValue == 10
\* the literal "name" of test_extra_info, as bytes
TestName == <<110, 97, 109, 101>>

\* Option<T>: None is the empty sequence, Some(x) the one-element sequence
None == <<>>
Some(x) == <<x>>

\* bytes a name is made of: the terminator and one ordinary byte
Bytes == {0, 97}
Names == UNION {[1..n -> Bytes] : n \in 1..MaxNameLen}
Handles == 1..MaxDescriptors
Inputs == 0..MaxInput
Messages == {"bad input", "overflow"}

VARIABLES
    eng,     \* engine side: descriptors, per-descriptor call log, destructor runs
    flows,   \* per descriptor: the wrapper call that created it and how it ended
    inv,     \* the latest query batch the engine ran
    nInv,    \* number of query batches run so far
    state    \* "open", "closed" (connection torn down) or "crashed"

vars == <<eng, flows, inv, nInv, state>>

\* ------------------------------------------------------- user functions
\* implementations of trait VFunc: the two of the test module and two
\* stand-ins for arbitrary user code (one keeps the default parameters())
Funcs == {"BasicFunc", "ExtraInfoFunc", "NullaryFunc", "BinaryFunc"}

\* ExtraInfoFunc::func dereferences the function's extra info, so it is only
\* sound on a descriptor that carries one; Connection::register_scalar_function
\* never attaches any, and is therefore driven with the other three.
RegistrableFuncs == Funcs \ {"ExtraInfoFunc"}

\* VFunc::parameters
parameters(f) ==
    CASE f = "BasicFunc" -> Some(<<"Integer">>)
      [] f = "ExtraInfoFunc" -> Some(<<"Integer">>)
      [] f = "BinaryFunc" -> Some(<<"Integer", "Varchar">>)
      [] OTHER -> None

\* VFunc::return_type
return_type(f) ==
    CASE f = "BinaryFunc" -> "Varchar"
      [] OTHER -> "Integer"

\* Option::unwrap_or_default on Option<Vec<LogicalType>>
unwrap_or_default(o) == IF o = None THEN <<>> ELSE o[1]

\* values a user function hands back: Ok(()), Err(e) or a panic
FuncOk(out, read) == [kind |-> "Ok", out |-> Some(out), message |-> None, read |-> read]
FuncErr(m) == [kind |-> "Err", out |-> None, message |-> Some(m), read |-> None]
FuncPanic == [kind |-> "Panic", out |-> None, message |-> None, read |-> None]

\* VFunc::func: the results the implementation can produce on one input row
\* given the extra info reachable through the function-info handle
func(f, info, input) ==
    CASE f = "BasicFunc" -> {FuncOk(input * 2, None)}
      [] f = "ExtraInfoFunc" ->
            IF info = None THEN {FuncPanic}
            ELSE {FuncOk(input * info[1], info)}
      [] OTHER -> {FuncOk(v, None) : v \in Inputs}
                    \cup {FuncErr(m) : m \in Messages}
                    \cup {FuncPanic}

\* ------------------------------------------------------------ the engine
EmptyDescriptor ==
    [status |-> "unallocated", name |-> None, function |-> None,
     return_type |-> None, params |-> <<>>, extra |-> None, destroy |-> None]

Log(e, d, call) == [e EXCEPT !.calls[d] = Append(@, call)]

duckdb_create_scalar_function(e, d) ==
    Log([e EXCEPT !.desc[d] = [EmptyDescriptor EXCEPT !.status = "caller"]], d, "create")

\* the engine reads the name as a C string: the bytes before the terminator
CStr(bytes) ==
    LET k == CHOOSE i \in 1..Len(bytes) :
                 bytes[i] = 0 /\ \A j \in 1..(i-1) : bytes[j] # 0
    IN SubSeq(bytes, 1, k - 1)

duckdb_scalar_function_set_name(e, d, cname) ==
    Log([e EXCEPT !.desc[d].name = Some(CStr(cname))], d, "set_name")

duckdb_scalar_function_set_function(e, d, function) ==
    Log([e EXCEPT !.desc[d].function = Some(function)], d, "set_function")

duckdb_scalar_function_add_parameter(e, d, type) ==
    Log([e EXCEPT !.desc[d].params = Append(@, type)], d, "add_parameter")

duckdb_scalar_function_set_return_type(e, d, type) ==
    Log([e EXCEPT !.desc[d].return_type = Some(type)], d, "set_return_type")

duckdb_scalar_function_set_extra_info(e, d, extra_info, destroy) ==
    Log([e EXCEPT !.desc[d].extra = Some(extra_info),
                  !.desc[d].destroy = Some(destroy)], d, "set_extra_info")

\* on success the engine becomes the owner of the descriptor
duckdb_register_scalar_function(e, d, rc) ==
    Log([e EXCEPT !.desc[d].status =
                      IF rc = DuckDBSuccess THEN "engine" ELSE @], d, "register")

\* teardown: the engine drops every function it owns and runs the installed
\* destructor of its auxiliary data
EngineTeardown(e) ==
    [e EXCEPT
       !.desc = [d \in Handles |->
                    IF e.desc[d].status = "engine"
                    THEN [e.desc[d] EXCEPT !.status = "destroyed"]
                    ELSE e.desc[d]],
       !.freed = [d \in Handles |->
                    IF e.desc[d].status = "engine" /\ e.desc[d].destroy # None
                    THEN e.freed[d] + 1
                    ELSE e.freed[d]]]

\* ----------------------------------------------------------- the wrapper
\* crate::Result<()> of the registration calls; Panic is an unwinding unwrap()
Ok == [kind |-> "Ok", variant |-> "", code |-> None, message |-> None]
Err(variant, code, message) ==
    [kind |-> "Err", variant |-> variant, code |-> code, message |-> message]
Panicked == [kind |-> "Panic", variant |-> "", code |-> None, message |-> None]
NoResult == [kind |-> "None", variant |-> "", code |-> None, message |-> None]

\* ffi::Error::new(rc): the error value that carries the status code
ffi_Error_new(rc) == Some(rc)

\* CString::new: refuses interior terminator bytes, else appends one
CString_new(name) ==
    IF \E i \in 1..Len(name) : name[i] = 0
    THEN [ok |-> FALSE, bytes |-> <<>>]
    ELSE [ok |-> TRUE, bytes |-> Append(name, 0)]

ScalarFunction_new(e, d) == duckdb_create_scalar_function(e, d)

\* set_name: CString::new(name).unwrap(), then the engine call
ScalarFunction_set_name(e, d, name) ==
    LET c == CString_new(name)
    IN IF c.ok
       THEN [panic |-> FALSE, e |-> duckdb_scalar_function_set_name(e, d, c.bytes)]
       ELSE [panic |-> TRUE, e |-> e]

ScalarFunction_add_parameter(e, d, param) ==
    duckdb_scalar_function_add_parameter(e, d, param)

\* faulty variant: the callback never reaches the descriptor
ScalarFunction_set_function_dropped(e, d, function) == Log(e, d, "set_function")

ScalarFunction_set_function(e, d, function) ==
    duckdb_scalar_function_set_function(e, d, function)

ScalarFunction_set_return_type(e, d, type) ==
    duckdb_scalar_function_set_return_type(e, d, type)

ScalarFunction_set_extra_info(e, d, extra_info) ==
    duckdb_scalar_function_set_extra_info(e, d, extra_info, "drop_data_c")

\* faulty variant: the engine's status is discarded
InnerConnection_register_scalar_function_unchecked(e, d, rc) ==
    [e |-> duckdb_register_scalar_function(e, d, rc), rc |-> Some(rc), result |-> Ok]

\* InnerConnection::register_scalar_function
InnerConnection_register_scalar_function(e, d, rc) ==
    [e |-> duckdb_register_scalar_function(e, d, rc),
     rc |-> Some(rc),
     result |-> IF rc # DuckDBSuccess
                THEN Err("DuckDBFailure", ffi_Error_new(rc), None)
                ELSE Ok]

\* faulty variant: the parameters are attached last to first
RECURSIVE AddParameters_reversed(_, _, _)
AddParameters_reversed(e, d, ps) ==
    IF ps = <<>> THEN e
    ELSE ScalarFunction_add_parameter(AddParameters_reversed(e, d, Tail(ps)), d, Head(ps))

\* for param in Func::parameters().unwrap_or_default() { func.add_parameter(param) }
RECURSIVE AddParameters(_, _, _)
AddParameters(e, d, ps) ==
    IF ps = <<>> THEN e
    ELSE AddParameters(ScalarFunction_add_parameter(e, d, Head(ps)), d, Tail(ps))

\* faulty variant: the parameters are attached after the register call
Connection_register_scalar_function_late(e, d, f, name, rc) ==
    LET e1 == ScalarFunction_new(e, d)
        r2 == ScalarFunction_set_name(e1, d, name)
    IN IF r2.panic
       THEN [e |-> e1, rc |-> None, result |-> Panicked]
       ELSE LET e3 == ScalarFunction_set_function(r2.e, d, f)
                e4 == ScalarFunction_set_return_type(e3, d, return_type(f))
                r5 == InnerConnection_register_scalar_function(e4, d, rc)
            IN [r5 EXCEPT !.e = AddParameters(r5.e, d, unwrap_or_default(parameters(f)))]

\* Connection::register_scalar_function::<Func>(name); rc is the status the
\* engine answers if its register call is reached
Connection_register_scalar_function(e, d, f, name, rc) ==
    LET e1 == ScalarFunction_new(e, d)
        r2 == ScalarFunction_set_name(e1, d, name)
    IN IF r2.panic
       THEN [e |-> e1, rc |-> None, result |-> Panicked]
       ELSE LET e3 == ScalarFunction_set_function(r2.e, d, f)
                e4 == ScalarFunction_set_return_type(e3, d, return_type(f))
                e5 == AddParameters(e4, d, unwrap_or_default(parameters(f)))
            IN InnerConnection_register_scalar_function(e5, d, rc)

\* test_extra_info up to its register call: no callback and no parameter is
\* attached to the descriptor
test_extra_info(e, d, rc) ==
    LET e1 == ScalarFunction_new(e, d)
        r2 == ScalarFunction_set_name(e1, d, TestName)
    IN IF r2.panic
       THEN [e |-> e1, rc |-> None, result |-> Panicked]
       ELSE LET e3 == ScalarFunction_set_return_type(r2.e, d, "Integer")
                e4 == ScalarFunction_set_extra_info(e3, d, ExtraInfoValue)
            IN InnerConnection_register_scalar_function(e4, d, rc)

\* FunctionInfo::set_error: one error-setting call on the function-info handle
set_error(errors, message) == Append(errors, message)

\* Display of the boxed error: err.to_string()
to_string(r) == r.message[1]

\* faulty variant: the failure of the user function is swallowed
virtual_function_silent(f, r, ub) ==
    [ran |-> TRUE, func |-> Some(f), user |-> r, errors |-> <<>>,
     output |-> r.out, returned |-> IF r.kind = "Panic" THEN ub ELSE "normal"]

\* virtual_function::<Func>: r is what Func::func did, ub the outcome of a
\* panic leaving the extern "C" frame (the process aborts, or the unwinding
\* runs into the engine's frames)
virtual_function(f, r, ub) ==
    [ran |-> TRUE,
     func |-> Some(f),
     user |-> r,
     errors |-> IF r.kind = "Err" THEN set_error(<<>>, to_string(r)) ELSE <<>>,
     output |-> r.out,
     returned |-> IF r.kind = "Panic" THEN ub ELSE "normal"]

\* a query on a descriptor that carries no callback runs no user code
NoCallback ==
    [ran |-> FALSE, func |-> None, user |-> FuncPanic, errors |-> <<>>,
     output |-> None, returned |-> "not called"]

PanicOutcomes == {"aborted", "unwound"}

\* ------------------------------------------------------------------ state
NoFlow == [flow |-> "none", name |-> <<>>, func |-> "", rc |-> None, result |-> NoResult]
NoInvocation == [d |-> 0, input |-> 0, call |-> NoCallback]

Init ==
    /\ eng = [desc |-> [d \in Handles |-> EmptyDescriptor],
              calls |-> [d \in Handles |-> <<>>],
              freed |-> [d \in Handles |-> 0]]
    /\ flows = [d \in Handles |-> NoFlow]
    /\ inv = NoInvocation
    /\ nInv = 0
    /\ state = "open"

Unallocated == {d \in Handles : eng.desc[d].status = "unallocated"}
NextHandle == CHOOSE d \in Unallocated : \A x \in Unallocated : d <= x

\* db.register_scalar_function::<Func>(name)
RegisterScalarFunction ==
    /\ state = "open"
    /\ Unallocated # {}
    /\ \E f \in RegistrableFuncs, name \in Names, rc \in EngineStatuses :
         LET d == NextHandle
             r == Connection_register_scalar_function(eng, d, f, name, rc)
         IN /\ eng' = r.e
            /\ flows' = [flows EXCEPT ![d] =
                           [flow |-> "register_scalar_function", name |-> name,
                            func |-> f, rc |-> r.rc, result |-> r.result]]
    /\ UNCHANGED <<inv, nInv, state>>

\* the registration part of test_extra_info
TestExtraInfo ==
    /\ state = "open"
    /\ Unallocated # {}
    /\ \E rc \in EngineStatuses :
         LET d == NextHandle
             r == test_extra_info(eng, d, rc)
         IN /\ eng' = r.e
            /\ flows' = [flows EXCEPT ![d] =
                           [flow |-> "test_extra_info", name |-> TestName,
                            func |-> "ExtraInfoFunc", rc |-> r.rc, result |-> r.result]]
    /\ UNCHANGED <<inv, nInv, state>>

\* a query calls a registered function on one row: the engine invokes the
\* callback stored in the descriptor
Query ==
    /\ state = "open"
    /\ nInv < MaxInvocations
    /\ \E d \in Handles, input \in Inputs :
         /\ eng.desc[d].status = "engine"
         /\ IF eng.desc[d].function = None
            THEN /\ inv' = [d |-> d, input |-> input, call |-> NoCallback]
                 /\ state' = state
            ELSE \E r \in func(eng.desc[d].function[1], eng.desc[d].extra, input),
                    ub \in PanicOutcomes :
                   LET c == virtual_function(eng.desc[d].function[1], r, ub)
                   IN /\ inv' = [d |-> d, input |-> input, call |-> c]
                      /\ state' = IF c.returned = "normal" THEN state ELSE "crashed"
    /\ nInv' = nInv + 1
    /\ UNCHANGED <<eng, flows>>

\* the connection is dropped and the engine releases what it owns
CloseConnection ==
    /\ state = "open"
    /\ eng' = EngineTeardown(eng)
    /\ state' = "closed"
    /\ UNCHANGED <<flows, inv, nInv>>

Next ==
    \/ RegisterScalarFunction
    \/ TestExtraInfo
    \/ Query
    \/ CloseConnection

Spec == Init /\ [][Next]_vars

\* ----------------------------------------------------------- properties
HasNul(name) == \E i \in 1..Len(name) : name[i] = 0
Count(s, x) == Cardinality({i \in 1..Len(s) : s[i] = x})
ViaConnection(d) == flows[d].flow = "register_scalar_function"
ReachedRegister(d) == flows[d].rc # None
Invoked == inv.d # 0

\* C1: a name with an embedded terminator byte makes set_name hand an
\* EncodingError value back to its caller, with no engine set_name call, no
\* later setter or register call, and no registration of the descriptor.
C1_NulNameReturnsEncodingError ==
    \A d \in Handles :
        (ViaConnection(d) /\ HasNul(flows[d].name)) =>
            /\ flows[d].result.kind = "Err"
            /\ flows[d].result.variant = "EncodingError"
            /\ eng.calls[d] = <<"create">>
            /\ eng.desc[d].status # "engine"

\* C2: in every trampoline invocation, a user function returning Err(m) leads
\* to exactly one error-setting call, carrying m, and a normal return; a user
\* function returning Ok leads to no error-setting call and a normal return.
C2_ErrorReportedOnce ==
    (Invoked /\ inv.call.ran) =>
        /\ inv.call.user.kind = "Err" =>
              /\ inv.call.errors = <<inv.call.user.message[1]>>
              /\ inv.call.returned = "normal"
        /\ inv.call.user.kind = "Ok" =>
              /\ inv.call.errors = <<>>
              /\ inv.call.returned = "normal"

C2_Witness ==
    /\ Invoked /\ inv.call.ran
    /\ inv.call.user.kind = "Err"
    /\ inv.call.errors = <<"overflow">>
    /\ state = "open"

\* C3: register fails exactly when the engine's register call answers a
\* status other than success; the failure carries that status and no message,
\* otherwise register succeeds; the engine's register call is made once.
C3_RegisterResultIsEngineStatus ==
    \A d \in Handles :
        ReachedRegister(d) =>
            /\ (flows[d].result.kind = "Err") <=> (flows[d].rc[1] # DuckDBSuccess)
            /\ flows[d].result.kind = "Err" =>
                  /\ flows[d].result.variant = "DuckDBFailure"
                  /\ flows[d].result.code = Some(flows[d].rc[1])
                  /\ flows[d].result.message = None
            /\ flows[d].result.kind # "Err" => flows[d].result = Ok
            /\ Count(eng.calls[d], "register") = 1

C3_Witness ==
    \E d \in Handles :
        /\ ReachedRegister(d)
        /\ flows[d].rc[1] # DuckDBSuccess
        /\ flows[d].result.kind = "Err"

\* C4: a query on a function registered with name, parameters and return
\* type and without auxiliary data runs the registered user function through
\* the trampoline, and its output is what that function computed (the
\* doubling function gives 2 on input 1).
C4_QueryRunsRegisteredFunction ==
    (Invoked /\ eng.desc[inv.d].extra = None) =>
        /\ inv.call.ran
        /\ inv.call.func = Some(flows[inv.d].func)
        /\ inv.call.user \in func(flows[inv.d].func, None, inv.input)
        /\ inv.call.output = inv.call.user.out
        /\ flows[inv.d].func = "BasicFunc" => inv.call.output = Some(2 * inv.input)

C4_Witness ==
    /\ Invoked
    /\ eng.desc[inv.d].extra = None
    /\ flows[inv.d].func = "BasicFunc"
    /\ inv.input = 1
    /\ inv.call.output = Some(2)

\* C5: on a descriptor given auxiliary data N and the multiplying user
\* function, every invocation after register reads N, and input 1 yields N.
C5_ExtraInfoReadByCallback ==
    (Invoked /\ eng.desc[inv.d].extra # None) =>
        /\ inv.call.ran
        /\ inv.call.user.read = eng.desc[inv.d].extra
        /\ inv.input = 1 => inv.call.output = eng.desc[inv.d].extra

\* C6: the destructor installed for an auxiliary-data block runs exactly once
\* over the life of the session, and not before the engine drops the function.
C6_DestructorExactlyOnce ==
    \A d \in Handles :
        eng.desc[d].extra # None =>
            /\ eng.freed[d] > 0 => eng.desc[d].status = "destroyed"
            /\ state = "closed" => eng.freed[d] = 1

\* C7: no descriptor is leaked: once the call that created it has returned,
\* a descriptor is owned by the engine or has been destroyed.
C7_NoDescriptorLeaked ==
    \A d \in Handles :
        eng.desc[d].status \in {"unallocated", "engine", "destroyed"}

\* C8: for each descriptor the engine calls come as create, setters, register:
\* no setter before create or after register, and at most one register.
Setters == {"set_name", "set_function", "set_return_type", "add_parameter", "set_extra_info"}
C8_CreateSettersRegister ==
    \A d \in Handles :
        LET s == eng.calls[d]
        IN s # <<>> =>
              /\ s[1] = "create"
              /\ \A i \in 2..Len(s) :
                    \/ s[i] \in Setters
                    \/ s[i] = "register" /\ i = Len(s)

C8_Witness ==
    \E d \in Handles :
        /\ Len(eng.calls[d]) >= 6
        /\ eng.calls[d][Len(eng.calls[d])] = "register"
        /\ Count(eng.calls[d], "add_parameter") = 2

\* C9: when Connection::register_scalar_function reaches the engine's register
\* call the descriptor has the name, the trampoline and the return type set and
\* its parameter list is parameters() in order; with no parameters() there is
\* no add_parameter call and the function has zero parameters.
C9_DescriptorFullyBuilt ==
    \A d \in Handles :
        (ViaConnection(d) /\ ReachedRegister(d)) =>
            /\ eng.desc[d].name = Some(flows[d].name)
            /\ eng.desc[d].function = Some(flows[d].func)
            /\ eng.desc[d].return_type = Some(return_type(flows[d].func))
            /\ eng.desc[d].params = unwrap_or_default(parameters(flows[d].func))
            /\ Count(eng.calls[d], "add_parameter") = Len(eng.desc[d].params)
            /\ parameters(flows[d].func) = None =>
                  /\ Count(eng.calls[d], "add_parameter") = 0
                  /\ eng.desc[d].params = <<>>

C9_Witness ==
    \E d \in Handles :
        /\ ViaConnection(d) /\ ReachedRegister(d)
        /\ flows[d].func = "BinaryFunc"
        /\ eng.desc[d].params = <<"Integer", "Varchar">>
        /\ eng.desc[d].name = Some(<<97, 97>>)

\* C10: every trampoline invocation returns normally, and any failure of the
\* user function, a panic included, becomes one error-setting call.
C10_TrampolineAlwaysReturns ==
    (Invoked /\ inv.call.ran) =>
        /\ inv.call.returned = "normal"
        /\ inv.call.user.kind # "Ok" => Len(inv.call.errors) = 1

====
